---------------------------- MODULE Spec2Model ----------------------------
(***************************************************************************)
(* A model of the implicitly restarted Arnoldi solver of Spectra           *)
(* (GenEigsBase.h) and of the dense eigen-decomposition of the projected   *)
(* upper Hessenberg matrix (LinAlg/UpperHessenbergEigen.h).                *)
(*                                                                         *)
(* Conventions.  C++ indices are 0-based, sequences here are 1-based: the  *)
(* C++ entry x[i] is x[i + 1] below.  A complex number is the pair         *)
(* <<re, im>> of integers on a grid whose unit is eps^(2/3); magnitudes    *)
(* are compared through their squares, which is exact for non-negative     *)
(* reals.  Entries of vectors of the small eigenproblem are integers of    *)
(* the same grid (real numbers).                                           *)
(***************************************************************************)
EXTENDS Integers, Sequences, FiniteSets

(***************************************************************************)
(* Bounds of the model.                                                    *)
(***************************************************************************)
MaxN == 4        \* largest operator dimension n
MaxIt == 1       \* largest maxit handed to compute()
MaxComputes == 2 \* compute() calls between two init calls
MaxHessN == 3    \* largest matrix handed to the dense decomposer
MaxHessComputes == 2 \* compute() calls on one decomposer object
MaxHelperNcv == 6 \* largest ncv a private helper is called with on its own
MaxTestNcv == 4  \* largest ncv the convergence test is called with on its own
MaxSortN == 4    \* largest size sortEigenvalues is called with on its own

VARIABLES
    ctor,         \* "none" | "ok" | "invalid_argument": outcome of the constructor
    args,         \* the constructor's arguments [n, nev, ncv]
    m_n, m_nev, m_ncv, m_nmatop, m_niter,
    m_fac,        \* the Arnoldi factorization (Krylov engine)
    m_ritz_val, m_ritz_vec, m_ritz_est, m_ritz_conv, m_info,
    pc,           \* position inside compute(): "idle" | "loop" | "sort"
    c_selection, c_maxit, c_tol, c_i, c_nconv,   \* compute()'s arguments and locals
    ret,          \* outcome of the last finished public call
    apps,         \* operator applications performed since the last init began
    computes,     \* compute() calls started since the last init
    hess,         \* an UpperHessenbergEigen object
    hcall,        \* the last call made on it and its outcome
    rst,          \* one call of RestartArnoldi::run
    unit          \* one call of a private helper on its own: [fn, in, out]

vars == <<ctor, args, m_n, m_nev, m_ncv, m_nmatop, m_niter, m_fac,
          m_ritz_val, m_ritz_vec, m_ritz_est, m_ritz_conv, m_info,
          pc, c_selection, c_maxit, c_tol, c_i, c_nconv, ret, apps, computes,
          hess, hcall, rst, unit>>

\* The variables of the solver, of the dense decomposer, of the restart and
\* of the helper calls.
svars == <<ctor, args, m_n, m_nev, m_ncv, m_nmatop, m_niter, m_fac,
           m_ritz_val, m_ritz_vec, m_ritz_est, m_ritz_conv, m_info,
           pc, c_selection, c_maxit, c_tol, c_i, c_nconv, ret, apps, computes>>
hvars == <<hess, hcall>>
rvars == <<rst>>
uvars == <<unit>>

(***************************************************************************)
(* Complex numbers and small helpers.                                      *)
(***************************************************************************)
Re(v) == v[1]
Im(v) == v[2]
Conj(v) == <<v[1], 0 - v[2]>>
Norm(v) == v[1] * v[1] + v[2] * v[2]       \* std::norm: the squared magnitude
AbsInt(x) == IF x < 0 THEN 0 - x ELSE x
Min(a, b) == IF a < b THEN a ELSE b
Max(a, b) == IF a < b THEN b ELSE a
Zero == <<0, 0>>
Indeterminate == "indeterminate"           \* a cell allocated and never written

is_complex(v) == Im(v) # 0
is_conj(v1, v2) == v1 = Conj(v2)

(***************************************************************************)
(* Selection / sort rules.                                                 *)
(***************************************************************************)
SupportedRules == {"LargestMagn", "LargestReal", "LargestImag",
                   "SmallestMagn", "SmallestReal", "SmallestImag"}
Rules == SupportedRules \cup {"BothEnds"}

\* The sorting target of a rule: indices are sorted by ascending target.
SortingTarget(rule, v) ==
    CASE rule = "LargestMagn" -> 0 - Norm(v)
      [] rule = "LargestReal" -> 0 - Re(v)
      [] rule = "LargestImag" -> 0 - AbsInt(Im(v))
      [] rule = "SmallestMagn" -> Norm(v)
      [] rule = "SmallestReal" -> Re(v)
      [] rule = "SmallestImag" -> AbsInt(Im(v))

\* SortEigenvalue<Complex, rule>(vals, size).swap(ind): the indices 1..size
\* ordered by the rule, stable (ties by original index).
SortEigenvalue(vals, size, rule) ==
    LET before(a, b) ==
            \/ SortingTarget(rule, vals[a]) < SortingTarget(rule, vals[b])
            \/ /\ SortingTarget(rule, vals[a]) = SortingTarget(rule, vals[b])
               /\ a < b
        rank(j) == 1 + Cardinality({k \in 1..size : before(k, j)})
    IN  [a \in 1..size |-> CHOOSE j \in 1..size : rank(j) = a]

(***************************************************************************)
(* The Krylov engine (Arnoldi<...>) and what the decomposition of its      *)
(* Hessenberg matrix can return for a real operator.                       *)
(***************************************************************************)
\* Eigenvalue vectors of length m as the real decomposer shapes them: real
\* entries and adjacent exact conjugate pairs, the entry with the positive
\* imaginary part first.  Three families: all real; a pair in front; a pair
\* at the end.
RealAt(j) == IF j % 2 = 1 THEN <<0 - 2, 0>> ELSE <<1, 0>>
PairAt(j) == IF j % 2 = 1 THEN <<1, 1>> ELSE <<1, 0 - 1>>
Spectra(m) ==
    {[j \in 1..m |-> RealAt(j)],
     [j \in 1..m |-> IF j <= 2 THEN PairAt(j) ELSE RealAt(j)],
     [j \in 1..m |-> IF j >= m - 1 THEN PairAt(j - (m - 2)) ELSE RealAt(j)]}

\* Last rows of the eigenvector matrix (the Ritz estimates) with the norm
\* of the residual f.
EstAndNorm(m) ==
    {[est |-> [j \in 1..m |-> 0], f_norm |-> 1],
     [est |-> [j \in 1..m |-> 1], f_norm |-> 1],
     [est |-> [j \in 1..m |-> 1], f_norm |-> 2],
     [est |-> [j \in 1..m |-> j % 2], f_norm |-> 1]}
Tols == {1}

UnitVec(n, r) == [x \in 1..n |-> IF x = r THEN 1 ELSE 0]

\* The eigenvector matrix (a sequence of columns) with last row e: column j
\* carries j in its first row and e[j] in its last row (row m).
Evecs(m, e) ==
    [j \in 1..m |-> [r \in 1..m |->
        IF r = m THEN e[j] ELSE IF r = 1 THEN j ELSE 0]]

\* The orthonormal basis V (n x m, a sequence of columns).
Basis(n, m) == [c \in 1..m |-> UnitVec(n, c + (n - m))]

NoFac == [k |-> 0, V |-> <<>>, evals |-> <<>>, evecs |-> <<>>, f_norm |-> 0]

\* Arnoldi::init(v0, op_counter): rank 1, first basis vector from v0, one
\* operator application.
arnoldi_init(n, v0) ==
    {[k |-> 1, V |-> <<v0>>, evals |-> <<>>, evecs |-> <<>>, f_norm |-> 1]}

\* Arnoldi::factorize_from(from_k, to_m, op_counter): the factorizations of
\* rank to_m the engine can produce; H is held through its decomposition.
factorize_from(n, from_k, to_m) ==
    {[k |-> to_m, V |-> Basis(n, to_m), evals |-> s, evecs |-> Evecs(to_m, x.est),
      f_norm |-> x.f_norm] :
     s \in Spectra(to_m), x \in EstAndNorm(to_m)}

\* Operator applications of factorize_from(from_k, to_m, ...).
factorize_ops(from_k, to_m) == IF to_m <= from_k THEN 0 ELSE to_m - from_k

(***************************************************************************)
(* GenEigsBase: private helpers.                                           *)
(***************************************************************************)
eps23 == 1      \* eps^(2/3), the unit of the grid

\* The constructor's first check with the boundary nev = n - 2 rejected.
ctor_check_strict(n, nev, ncv) ==
    IF nev < 1 \/ nev >= n - 2 THEN "invalid_argument"
    ELSE IF ncv < nev + 2 \/ ncv > n THEN "invalid_argument"
    ELSE "ok"

\* Constructor checks (after the initializer list).
ctor_check(n, nev, ncv) ==
    IF nev < 1 \/ nev > n - 2 THEN "invalid_argument"
    ELSE IF ncv < nev + 2 \/ ncv > n THEN "invalid_argument"
    ELSE "ok"

\* The convergence test with <= in place of <.
num_converged_weak(ritz_val, ritz_est, f_norm, tol, nev) ==
    [i \in 1..nev |->
        (ritz_est[i] * ritz_est[i]) * (f_norm * f_norm)
            <= (tol * tol) * Max(eps23 * eps23, Norm(ritz_val[i]))]

\* num_converged(tol): the new m_ritz_conv (its count is the return value).
num_converged(ritz_val, ritz_est, f_norm, tol, nev) ==
    [i \in 1..nev |->
        (ritz_est[i] * ritz_est[i]) * (f_norm * f_norm)
            < (tol * tol) * Max(eps23 * eps23, Norm(ritz_val[i]))]

Count(flags) == Cardinality({i \in DOMAIN flags : flags[i]})

\* |x| < near_0 = 10 * min(): on the grid only 0 is that small.
below_near_0(x) == x = 0

\* nev_adjusted with the rank clamped to ncv - 1.
nev_adjusted_clamp_late(ritz_val, ritz_est, nev, ncv, nconv) ==
    LET n0 == nev + Cardinality({i \in (nev + 1)..ncv : below_near_0(ritz_est[i])})
        n1 == n0 + Min(nconv, (ncv - n0) \div 2)
        n2 == IF n1 = 1 /\ ncv >= 6 THEN ncv \div 2
              ELSE IF n1 = 1 /\ ncv > 3 THEN 2
              ELSE n1
        n3 == IF n2 > ncv - 1 THEN ncv - 1 ELSE n2
    IN  IF is_complex(ritz_val[n3]) /\ is_conj(ritz_val[n3], ritz_val[n3 + 1])
        THEN n3 + 1 ELSE n3

\* nev_adjusted with the two tests for the rank 1 in the other order.
nev_adjusted_two_first(ritz_val, ritz_est, nev, ncv, nconv) ==
    LET n0 == nev + Cardinality({i \in (nev + 1)..ncv : below_near_0(ritz_est[i])})
        n1 == n0 + Min(nconv, (ncv - n0) \div 2)
        n2 == IF n1 = 1 /\ ncv > 3 THEN 2
              ELSE IF n1 = 1 /\ ncv >= 6 THEN ncv \div 2
              ELSE n1
        n3 == IF n2 > ncv - 2 THEN ncv - 2 ELSE n2
    IN  IF is_complex(ritz_val[n3]) /\ is_conj(ritz_val[n3], ritz_val[n3 + 1])
        THEN n3 + 1 ELSE n3

\* nev_adjusted(nconv), lines 253-265: nev_new before the test for a
\* conjugate pair.
nev_clamped(ritz_est, nev, ncv, nconv) ==
    LET n0 == nev + Cardinality({i \in (nev + 1)..ncv : below_near_0(ritz_est[i])})
        n1 == n0 + Min(nconv, (ncv - n0) \div 2)
        n2 == IF n1 = 1 /\ ncv >= 6 THEN ncv \div 2
              ELSE IF n1 = 1 /\ ncv > 3 THEN 2
              ELSE n1
    IN  IF n2 > ncv - 2 THEN ncv - 2 ELSE n2

\* nev_adjusted(nconv)
nev_adjusted(ritz_val, ritz_est, nev, ncv, nconv) ==
    LET n3 == nev_clamped(ritz_est, nev, ncv, nconv)
    IN  IF is_complex(ritz_val[n3]) /\ is_conj(ritz_val[n3], ritz_val[n3 + 1])
        THEN n3 + 1 ELSE n3

\* The switch of retrieve_ritzpair with the case SmallestImag missing.
selection_throws_case_missing(selection) ==
    selection \notin (SupportedRules \ {"SmallestImag"})

\* retrieve_ritzpair(selection), lines 288-328: the switch has one case for
\* each of the six rules and throws std::invalid_argument by default.
selection_throws(selection) == selection \notin SupportedRules

\* sort_ritzpair(sort_rule), lines 348-387: the same switch over the sort rule.
sort_throws(sort_rule) == sort_rule \notin SupportedRules

retrieve_ritzpair_est_in_place(fac, selection, nev, ncv) ==
    LET ind == SortEigenvalue(fac.evals, ncv, selection)
    IN  [val |-> [i \in 1..ncv |-> fac.evals[ind[i]]],
         est |-> [i \in 1..ncv |-> fac.evecs[i][ncv]],
         vec |-> [i \in 1..nev |-> fac.evecs[ind[i]]]]

\* retrieve_ritzpair(selection) for a supported rule.
retrieve_ritzpair(fac, selection, nev, ncv) ==
    LET ind == SortEigenvalue(fac.evals, ncv, selection)
    IN  [val |-> [i \in 1..ncv |-> fac.evals[ind[i]]],
         est |-> [i \in 1..ncv |-> fac.evecs[ind[i]][ncv]],
         vec |-> [i \in 1..nev |-> fac.evecs[ind[i]]]]

\* The exit sort with the flags left where they were.
sort_ritzpair_flags_left(ritz_val, ritz_vec, ritz_conv, nev, ncv, sort_rule) ==
    LET ind == SortEigenvalue(ritz_val, nev, sort_rule)
    IN  [val |-> [i \in 1..ncv |-> IF i <= nev THEN ritz_val[ind[i]] ELSE Indeterminate],
         vec |-> [i \in 1..nev |-> ritz_vec[ind[i]]],
         conv |-> ritz_conv]

\* sort_ritzpair(sort_rule) for a supported rule.
sort_ritzpair(ritz_val, ritz_vec, ritz_conv, nev, ncv, sort_rule) ==
    LET ind == SortEigenvalue(ritz_val, nev, sort_rule)
    IN  [val |-> [i \in 1..ncv |-> IF i <= nev THEN ritz_val[ind[i]] ELSE Indeterminate],
         vec |-> [i \in 1..nev |-> ritz_vec[ind[i]]],
         conv |-> [i \in 1..nev |-> ritz_conv[ind[i]]]]

\* m_niter += (i + 1)
niter_after(niter, i) == niter + (i + 1)

\* The status drawn from "something converged" instead of nconv >= nev.
info_after_any(nconv, nev) == IF nconv >= 1 THEN "Successful" ELSE "NotConverging"

\* m_info = (nconv >= m_nev) ? Successful : NotConverging
info_after(nconv, nev) == IF nconv >= nev THEN "Successful" ELSE "NotConverging"

(***************************************************************************)
(* GenEigsBase: accessors.                                                 *)
(***************************************************************************)
info == m_info
num_iterations == m_niter
num_operations == m_nmatop

RECURSIVE Flagged(_, _)
\* The flagged positions among 1..upto, in increasing order.
Flagged(flags, upto) ==
    IF upto = 0 THEN <<>>
    ELSE IF flags[upto] THEN Append(Flagged(flags, upto - 1), upto)
    ELSE Flagged(flags, upto - 1)

eigenvalues ==
    LET pos == Flagged(m_ritz_conv, Len(m_ritz_conv))
    IN  [j \in 1..Len(pos) |-> m_ritz_val[pos[j]]]

RECURSIVE Dot(_, _, _)
Dot(row, x, c) == IF c = 0 THEN 0 ELSE Dot(row, x, c - 1) + row[c] * x[c]

\* V * x for V given by its columns.
MatVec(V, x, n) == [r \in 1..n |-> Dot([c \in 1..Len(V) |-> V[c][r]], x, Len(V))]

eigenvectors(nvec) ==
    LET pos == Flagged(m_ritz_conv, Len(m_ritz_conv))
        cnt == Min(nvec, Len(pos))
    IN  [j \in 1..cnt |-> MatVec(m_fac.V, m_ritz_vec[pos[j]], m_n)]

(***************************************************************************)
(* UpperHessenbergEigen: the numbers of the dense decomposer.              *)
(*                                                                         *)
(* A floating-point number is <<"num", x>> for the grid value x, NaN, or   *)
(* OffGrid for a finite or infinite value that is not on the grid (an      *)
(* inexact quotient, a quotient by eps * norm, a division of a non-zero    *)
(* by zero).  Comparisons with NaN are false, as in IEEE arithmetic.  A    *)
(* complex number is a pair <<re, im>> of such numbers.                    *)
(***************************************************************************)
N(x) == <<"num", x>>
NaN == <<"nan", 0>>
OffGrid == <<"off", 0>>
IsNum(a) == a[1] = "num"

Lift2(a, b, r) ==
    IF a = NaN \/ b = NaN THEN NaN
    ELSE IF a = OffGrid \/ b = OffGrid THEN OffGrid
    ELSE r

NAdd(a, b) == Lift2(a, b, N(a[2] + b[2]))
NSub(a, b) == Lift2(a, b, N(a[2] - b[2]))
NMul(a, b) == Lift2(a, b, N(a[2] * b[2]))
NNeg(a) == IF IsNum(a) THEN N(0 - a[2]) ELSE a
NAbs(a) == IF IsNum(a) THEN N(AbsInt(a[2])) ELSE a

\* x / y for integers, y # 0: the quotient when it is a grid value.
Quot(x, y) ==
    IF AbsInt(x) % AbsInt(y) # 0 THEN OffGrid
    ELSE IF (x < 0) = (y < 0) THEN N(AbsInt(x) \div AbsInt(y))
    ELSE N(0 - (AbsInt(x) \div AbsInt(y)))

NDiv(a, b) ==
    Lift2(a, b, IF b[2] # 0 THEN Quot(a[2], b[2])
                ELSE IF a[2] = 0 THEN NaN ELSE OffGrid)

\* a / (eps * norm) and the like: a quotient by a positive number far below
\* the unit of the grid.
NDivTiny(a) == IF a = N(0) THEN N(0) ELSE IF a = NaN THEN NaN ELSE OffGrid

\* Scalar(0.5) * a
NHalf(a) == Lift2(a, a, Quot(a[2], 2))

NSqrt(a) ==
    IF ~IsNum(a) THEN a
    ELSE IF a[2] < 0 THEN NaN
    ELSE IF \E r \in 0..a[2] : r * r = a[2]
         THEN N(CHOOSE r \in 0..a[2] : r * r = a[2])
         ELSE OffGrid

NEq(a, b) == IsNum(a) /\ IsNum(b) /\ a[2] = b[2]
NLt(a, b) == IsNum(a) /\ IsNum(b) /\ a[2] < b[2]
\* (std::max)(a, b)
NMax(a, b) == IF NLt(a, b) THEN b ELSE a

RECURSIVE NSum(_, _)
\* The sum of the first k entries of a sequence of numbers.
NSum(seq, k) == IF k = 0 THEN N(0) ELSE NAdd(NSum(seq, k - 1), seq[k])

HC(re, im) == <<re, im>>
HCNum(z) == HC(N(z[1]), N(z[2]))
HCZero == HC(N(0), N(0))
HCOne == HC(N(1), N(0))
HCAdd(a, b) == HC(NAdd(a[1], b[1]), NAdd(a[2], b[2]))
HCSub(a, b) == HC(NSub(a[1], b[1]), NSub(a[2], b[2]))
HCNeg(a) == HC(NNeg(a[1]), NNeg(a[2]))
HCMul(a, b) ==
    HC(NSub(NMul(a[1], b[1]), NMul(a[2], b[2])),
       NAdd(NMul(a[1], b[2]), NMul(a[2], b[1])))
HCConj(a) == HC(a[1], NNeg(a[2]))
HCNorm(a) == NAdd(NMul(a[1], a[1]), NMul(a[2], a[2]))
\* a / b for complex numbers: a * conj(b) / |b|^2.
HCDiv(a, b) ==
    LET num == HCMul(a, HCConj(b))
    IN  HC(NDiv(num[1], HCNorm(b)), NDiv(num[2], HCNorm(b)))
HCDivTiny(a) == HC(NDivTiny(a[1]), NDivTiny(a[2]))
HCIsZero(a) == NEq(a[1], N(0)) /\ NEq(a[2], N(0))

RECURSIVE HCSum(_, _)
HCSum(seq, k) == IF k = 0 THEN HCZero ELSE HCAdd(HCSum(seq, k - 1), seq[k])

\* Matrices are sequences of rows.
IdentityR(n) == [i \in 1..n |-> [j \in 1..n |-> IF i = j THEN N(1) ELSE N(0)]]
IdentityC(n) == [i \in 1..n |-> [j \in 1..n |-> IF i = j THEN HCOne ELSE HCZero]]

\* col.normalize(): the column divided by its norm when the squared norm z
\* is positive, left alone otherwise.  The normalized column is held as the
\* direction dir and the squared norm div2 it was divided by.
normalize(col) ==
    LET z == NSum([i \in 1..Len(col) |-> HCNorm(col[i])], Len(col))
    IN  IF NLt(N(0), z) THEN [dir |-> col, div2 |-> z]
        ELSE [dir |-> col, div2 |-> N(1)]

(***************************************************************************)
(* UpperHessenbergEigen<Scalar>: the real variant.                         *)
(***************************************************************************)
\* mat.cwiseAbs().maxCoeff() of an input with integer entries.
max_coeff(mat) ==
    LET abs == {AbsInt(mat.a[i][j]) : i \in 1..mat.rows, j \in 1..mat.cols}
    IN  CHOOSE x \in abs : \A y \in abs : y <= x

\* mat / scale
scaled_input(mat, scale) ==
    [i \in 1..mat.rows |-> [j \in 1..mat.cols |-> NDiv(N(mat.a[i][j]), N(scale))]]

\* UpperHessenbergSchur::compute on a matrix that is already in standardized
\* real Schur form: T is the matrix and U the identity.  A matrix of NaN of
\* size 1 needs no iteration; for a larger one the reduction may also give up.
UpperHessenbergSchur(A, n) ==
    IF n = 1 \/ \A i, j \in 1..n : IsNum(A[i][j])
    THEN {[ok |-> TRUE, T |-> A, U |-> IdentityR(n)]}
    ELSE {[ok |-> TRUE, T |-> A, U |-> IdentityR(n)],
          [ok |-> FALSE, T |-> A, U |-> IdentityR(n)]}

RECURSIVE eigenvalues_from_T(_, _, _, _)
\* compute(), lines 240-268: the eigenvalues of the diagonal blocks of T
\* from block i on.
eigenvalues_from_T(T, n, i, ev) ==
    IF i > n THEN ev
    ELSE IF i = n \/ NEq(T[i + 1][i], N(0))
    THEN eigenvalues_from_T(T, n, i + 1, [ev EXCEPT ![i] = HC(T[i][i], N(0))])
    ELSE LET p == NHalf(NSub(T[i][i], T[i + 1][i + 1]))
             t0 == T[i + 1][i]
             t1 == T[i][i + 1]
             maxval == NMax(NAbs(p), NMax(NAbs(t0), NAbs(t1)))
             p0 == NDiv(p, maxval)
             z == NMul(maxval, NSqrt(NAbs(NAdd(NMul(p0, p0),
                                         NMul(NDiv(t0, maxval), NDiv(t1, maxval))))))
         IN  eigenvalues_from_T(T, n, i + 2,
                 [ev EXCEPT ![i] = HC(NAdd(T[i + 1][i + 1], p), z),
                            ![i + 1] = HC(NAdd(T[i + 1][i + 1], p), NNeg(z))])

\* doComputeEigenvectors(), lines 61-65.
hessenberg_norm(T, size) ==
    NSum([j \in 1..size |->
            NSum([c \in 1..(size - Max(j - 1, 1) + 1) |->
                    NAbs(T[j][Max(j - 1, 1) + c - 1])],
                 size - Max(j - 1, 1) + 1)], size)

\* row(i).segment(l, n - l + 1).dot(col(c).segment(l, n - l + 1))
segment_dot(T, i, c, l, n) ==
    NSum([x \in 1..(n - l + 1) |-> NMul(T[i][l + x - 1], T[l + x - 1][c])], n - l + 1)

RECURSIVE scalar_vector_rows(_, _, _, _, _, _, _)
\* Lines 83-121: rows i, i - 1, .., 1 of the vector of the real eigenvalue n.
\* The overflow control of lines 117-119 acts on entries beyond 1 / sqrt(eps)
\* only, which no grid value is.
scalar_vector_rows(T, ev, n, i, l, lastr, lastw) ==
    IF i = 0 THEN T
    ELSE LET p == ev[n][1]
             w == NSub(T[i][i], p)
             r == segment_dot(T, i, n, l, n)
         IN  IF NLt(ev[i][2], N(0))
             THEN scalar_vector_rows(T, ev, n, i - 1, l, r, w)
             ELSE IF NEq(ev[i][2], N(0))
             THEN scalar_vector_rows(
                      [T EXCEPT ![i][n] = IF ~NEq(w, N(0)) THEN NDiv(NNeg(r), w)
                                          ELSE NDivTiny(NNeg(r))],
                      ev, n, i - 1, i, lastr, lastw)
             ELSE LET x == T[i][i + 1]
                      y == T[i + 1][i]
                      d == NSub(ev[i][1], p)
                      denom == NAdd(NMul(d, d), NMul(ev[i][2], ev[i][2]))
                      t == NDiv(NSub(NMul(x, lastr), NMul(lastw, r)), denom)
                      below == IF NLt(NAbs(lastw), NAbs(x))
                               THEN NDiv(NSub(NNeg(r), NMul(w, t)), x)
                               ELSE NDiv(NSub(NNeg(lastr), NMul(y, t)), lastw)
                  IN  scalar_vector_rows(
                          [T EXCEPT ![i][n] = t, ![i + 1][n] = below],
                          ev, n, i - 1, i, lastr, lastw)

RECURSIVE complex_vector_rows(_, _, _, _, _, _, _, _)
\* Lines 142-194: rows i, i - 1, .., 1 of the vectors of the pair (n - 1, n).
complex_vector_rows(T, ev, n, i, l, lastra, lastsa, lastw) ==
    IF i <= 0 THEN T
    ELSE LET p == ev[n][1]
             q == ev[n][2]
             ra == segment_dot(T, i, n - 1, l, n)
             sa == segment_dot(T, i, n, l, n)
             w == NSub(T[i][i], p)
         IN  IF NLt(ev[i][2], N(0))
             THEN complex_vector_rows(T, ev, n, i - 1, l, ra, sa, w)
             ELSE IF NEq(ev[i][2], N(0))
             THEN LET cc == HCDiv(HC(NNeg(ra), NNeg(sa)), HC(w, q))
                  IN  complex_vector_rows(
                          [T EXCEPT ![i][n - 1] = cc[1], ![i][n] = cc[2]],
                          ev, n, i - 1, i, lastra, lastsa, lastw)
             ELSE LET x == T[i][i + 1]
                      y == T[i + 1][i]
                      d == NSub(ev[i][1], p)
                      vr == NSub(NAdd(NMul(d, d), NMul(ev[i][2], ev[i][2])), NMul(q, q))
                      vi == NMul(NMul(d, N(2)), q)
                      num == HC(NAdd(NSub(NMul(x, lastra), NMul(lastw, ra)), NMul(q, sa)),
                                NSub(NSub(NMul(x, lastsa), NMul(lastw, sa)), NMul(q, ra)))
                      cc == IF NEq(vr, N(0)) /\ NEq(vi, N(0))
                            THEN HCDivTiny(num) ELSE HCDiv(num, HC(vr, vi))
                      c2 == HCDiv(HC(NSub(NNeg(lastra), NMul(y, cc[1])),
                                     NSub(NNeg(lastsa), NMul(y, cc[2]))),
                                  HC(lastw, q))
                      below1 == IF NLt(NAdd(NAbs(lastw), NAbs(q)), NAbs(x))
                                THEN NDiv(NAdd(NSub(NNeg(ra), NMul(w, cc[1])),
                                               NMul(q, cc[2])), x)
                                ELSE c2[1]
                      below2 == IF NLt(NAdd(NAbs(lastw), NAbs(q)), NAbs(x))
                                THEN NDiv(NSub(NSub(NNeg(sa), NMul(w, cc[2])),
                                               NMul(q, cc[1])), x)
                                ELSE c2[2]
                  IN  complex_vector_rows(
                          [T EXCEPT ![i][n - 1] = cc[1], ![i][n] = cc[2],
                                    ![i + 1][n - 1] = below1, ![i + 1][n] = below2],
                          ev, n, i - 1, i, lastra, lastsa, lastw)

\* Lines 125-141: the last two components of the vectors of the pair (n - 1, n).
complex_vector_head(T, ev, n) ==
    LET p == ev[n][1]
        q == ev[n][2]
        cc == HCDiv(HC(N(0), NNeg(T[n - 1][n])), HC(NSub(T[n - 1][n - 1], p), q))
        T1 == IF NLt(NAbs(T[n - 1][n]), NAbs(T[n][n - 1]))
              THEN [T EXCEPT ![n - 1][n - 1] = NDiv(q, T[n][n - 1]),
                             ![n - 1][n] = NDiv(NNeg(NSub(T[n][n], p)), T[n][n - 1])]
              ELSE [T EXCEPT ![n - 1][n - 1] = cc[1], ![n - 1][n] = cc[2]]
    IN  [T1 EXCEPT ![n][n - 1] = N(0), ![n][n] = N(1)]

RECURSIVE back_substitute(_, _, _)
\* Lines 71-199: the loop over the eigenvalues n, n - 1, .., 1.
back_substitute(T, ev, n) ==
    IF n <= 0 THEN T
    ELSE IF NEq(ev[n][2], N(0))
    THEN back_substitute(
             scalar_vector_rows([T EXCEPT ![n][n] = N(1)], ev, n, n - 1, n, N(0), N(0)),
             ev, n - 1)
    ELSE IF NLt(ev[n][2], N(0)) /\ n > 1
    THEN back_substitute(
             complex_vector_rows(complex_vector_head(T, ev, n), ev, n, n - 2, n - 1,
                                 N(0), N(0), N(0)),
             ev, n - 2)
    ELSE back_substitute(T, ev, n - 1)

\* Lines 201-207: column j of m_eivec becomes m_eivec.leftCols(j) * T.col(j).
back_transform(U, T, size) ==
    [i \in 1..size |-> [j \in 1..size |->
        NSum([c \in 1..j |-> NMul(U[i][c], T[c][j])], j)]]

\* doComputeEigenvectors(): the new m_matT and m_eivec.
doComputeEigenvectors(T, U, ev, size) ==
    LET norm == hessenberg_norm(T, size)
    IN  IF NEq(norm, N(0)) THEN [matT |-> T, eivec |-> U]
        ELSE LET B == back_substitute(T, ev, size)
             IN  [matT |-> B, eivec |-> back_transform(U, B, size)]

\* m_eivalues *= scale
scale_back(ev, scale) ==
    [i \in 1..Len(ev) |-> HC(NMul(ev[i][1], N(scale)), NMul(ev[i][2], N(scale)))]

\* The object before any compute().
NewHess(variant, n) ==
    [variant |-> variant, m_n |-> n, m_computed |-> FALSE, m_eivalues |-> <<>>,
     m_eivec |-> <<>>, m_matT |-> <<>>]

NoHess == NewHess("none", 0)

\* compute(mat) of the real variant with the outcome sch of the Schur
\* reduction: the object afterwards and how the call ended.
compute_real_with(obj, mat, sch) ==
    IF mat.rows # mat.cols
    THEN [obj |-> obj, status |-> "invalid_argument", attempts |-> 0]
    ELSE IF ~sch.ok
    THEN [obj |-> [obj EXCEPT !.m_n = mat.rows], status |-> "runtime_error",
          attempts |-> 1]
    ELSE LET n == mat.rows
             ev == eigenvalues_from_T(sch.T, n, 1, [i \in 1..n |-> HC(NaN, NaN)])
             vecs == doComputeEigenvectors(sch.T, sch.U, ev, n)
         IN  [obj |-> [obj EXCEPT !.m_n = n, !.m_matT = vecs.matT,
                                  !.m_eivec = vecs.eivec,
                                  !.m_eivalues = scale_back(ev, max_coeff(mat)),
                                  !.m_computed = TRUE],
              status |-> "returned", attempts |-> 1]

\* compute(mat) of the real variant: the possible outcomes.
compute_real(obj, mat) ==
    IF mat.rows # mat.cols
    THEN {[obj |-> obj, status |-> "invalid_argument", attempts |-> 0]}
    ELSE {compute_real_with(obj, mat, sch) :
          sch \in UpperHessenbergSchur(scaled_input(mat, max_coeff(mat)), mat.rows)}

RECURSIVE eigenvectors_real_from(_, _, _, _)
\* eigenvectors(), lines 296-317: the columns j, j + 1, .. of matV.
eigenvectors_real_from(eivec, ev, n, j) ==
    IF j > n THEN <<>>
    ELSE IF NEq(ev[j][2], N(0)) \/ j = n
    THEN <<normalize([i \in 1..n |-> HC(eivec[i][j], N(0))])>>
             \o eigenvectors_real_from(eivec, ev, n, j + 1)
    ELSE <<normalize([i \in 1..n |-> HC(eivec[i][j], eivec[i][j + 1])]),
           normalize([i \in 1..n |-> HC(eivec[i][j], NNeg(eivec[i][j + 1]))])>>
             \o eigenvectors_real_from(eivec, ev, n, j + 2)

(***************************************************************************)
(* UpperHessenbergEigen<std::complex<RealScalar>>: the complex variant.    *)
(***************************************************************************)
\* Eigen::ComplexSchur::computeFromHessenberg on an upper triangular matrix:
\* T is the matrix and U the identity; on a matrix marked hard the reduction
\* exhausts its iterations.
ComplexSchur(mat) ==
    IF mat.hard THEN [ok |-> FALSE, T |-> <<>>, U |-> <<>>]
    ELSE [ok |-> TRUE,
          T |-> [i \in 1..mat.rows |-> [j \in 1..mat.cols |-> HCNum(mat.a[i][j])]],
          U |-> IdentityC(mat.rows)]

\* m_schur.matrixT().norm() == 0: the Frobenius norm of T is zero exactly
\* when every entry is.
matrixnorm_is_zero(T) == \A i, j \in 1..Len(T) : HCIsZero(T[i][j])

RECURSIVE matX_column(_, _, _, _)
\* doComputeEigenvectors(), lines 358-373: column k of the unit triangular X,
\* rows i, i - 1, .., 1 (col holds the rows already computed).  A zero
\* denominator z is replaced by eps * matrixnorm, which is zero again when
\* the norm is.
matX_column(T, k, i, col) ==
    IF i = 0 THEN col
    ELSE LET head == HCNeg(T[i][k])
             x == IF k - i - 1 > 0
                  THEN HCSub(head, HCSum([c \in 1..(k - i - 1) |->
                                             HCMul(T[i][i + c], col[i + c])], k - i - 1))
                  ELSE head
             z == HCSub(T[i][i], T[k][k])
         IN  matX_column(T, k, i - 1,
                 [col EXCEPT ![i] = IF ~HCIsZero(z) THEN HCDiv(x, z)
                                    ELSE IF matrixnorm_is_zero(T) THEN HCDiv(x, HCZero)
                                    ELSE HCDivTiny(x)])

\* doComputeEigenvectors(matrixnorm): the normalized columns of U * X.
doComputeEigenvectorsComplex(T, U, n) ==
    LET X == [k \in 1..n |->
                 matX_column(T, k, k - 1,
                             [i \in 1..n |-> IF i = k THEN HCOne ELSE HCZero])]
    IN  [k \in 1..n |->
            normalize([i \in 1..n |->
                HCSum([c \in 1..n |-> HCMul(U[i][c], X[k][c])], n)])]

\* m_eivalues.cwiseAbs().tail(n - i).minCoeff(&k): the first position of the
\* smallest magnitude among the positions from on (an offset from from).
min_coeff_tail(ev, from) ==
    LET n == Len(ev)
        least(j) == \A x \in from..n : ~NLt(HCNorm(ev[x]), HCNorm(ev[j]))
    IN  (CHOOSE j \in from..n : least(j) /\ \A x \in from..(j - 1) : ~least(x)) - from

RECURSIVE sortEigenvalues_values_only(_, _, _)
\* sortEigenvalues with the columns left where they were.
sortEigenvalues_values_only(ev, vec, i) ==
    IF i > Len(ev) THEN [eivalues |-> ev, eivec |-> vec]
    ELSE LET k == min_coeff_tail(ev, i)
         IN  IF k # 0
             THEN sortEigenvalues_values_only(
                      [ev EXCEPT ![i] = ev[k + i], ![k + i] = ev[i]], vec, i + 1)
             ELSE sortEigenvalues_values_only(ev, vec, i + 1)

RECURSIVE sortEigenvalues(_, _, _)
\* sortEigenvalues(true) from position i on: the eigenvalues and the
\* eigenvector columns after the swaps.
sortEigenvalues(ev, vec, i) ==
    IF i > Len(ev) THEN [eivalues |-> ev, eivec |-> vec]
    ELSE LET k == min_coeff_tail(ev, i)
         IN  IF k # 0
             THEN sortEigenvalues([ev EXCEPT ![i] = ev[k + i], ![k + i] = ev[i]],
                                  [vec EXCEPT ![i] = vec[k + i], ![k + i] = vec[i]],
                                  i + 1)
             ELSE sortEigenvalues(ev, vec, i + 1)

\* compute(mat) with m_computed set before the outcome of the reduction is
\* looked at.
compute_complex_marked(obj, mat) ==
    IF mat.rows # mat.cols
    THEN [obj |-> obj, status |-> "invalid_argument", attempts |-> 0]
    ELSE IF ComplexSchur(mat).ok
    THEN [obj |-> [obj EXCEPT !.m_computed = TRUE], status |-> "returned",
          attempts |-> 1]
    ELSE [obj |-> [obj EXCEPT !.m_computed = TRUE], status |-> "runtime_error",
          attempts |-> 1]

\* compute(mat) of the complex variant: the object afterwards and how the
\* call ended.  m_eivec is held by its columns.
compute_complex(obj, mat) ==
    IF mat.rows # mat.cols
    THEN [obj |-> obj, status |-> "invalid_argument", attempts |-> 0]
    ELSE LET sch == ComplexSchur(mat)
             n == mat.rows
             identity == [k \in 1..n |->
                             [dir |-> [i \in 1..n |-> IF i = k THEN HCOne ELSE HCZero],
                              div2 |-> N(1)]]
         IN  IF sch.ok
             THEN LET diag == [i \in 1..n |-> sch.T[i][i]]
                      sorted == sortEigenvalues(diag,
                                    doComputeEigenvectorsComplex(sch.T, sch.U, n), 1)
                  IN  [obj |-> [obj EXCEPT !.m_eivalues = sorted.eivalues,
                                           !.m_eivec = sorted.eivec,
                                           !.m_computed = TRUE],
                       status |-> "returned", attempts |-> 1]
             ELSE [obj |-> [obj EXCEPT !.m_eivec = identity],
                   status |-> "runtime_error", attempts |-> 1]

\* eigenvalues() and eigenvectors() of either variant.
hess_eigenvalues(obj) ==
    IF ~obj.m_computed THEN [status |-> "logic_error", value |-> <<>>]
    ELSE [status |-> "returned", value |-> obj.m_eivalues]

hess_eigenvectors(obj) ==
    IF ~obj.m_computed THEN [status |-> "logic_error", value |-> <<>>]
    ELSE [status |-> "returned",
          value |-> IF obj.variant = "real"
                    THEN eigenvectors_real_from(obj.m_eivec, obj.m_eivalues,
                                                Len(obj.m_eivec), 1)
                    ELSE obj.m_eivec]

\* compute(mat) of the object's variant: the possible outcomes.
hess_compute(obj, mat) ==
    IF obj.variant = "real" THEN compute_real(obj, mat) ELSE {compute_complex(obj, mat)}

(***************************************************************************)
(* The inputs handed to the decomposer.                                    *)
(***************************************************************************)
MatrixOf(rows, cols, a, hard) == [rows |-> rows, cols |-> cols, a |-> a, hard |-> hard]
NoInput == MatrixOf(0, 0, <<>>, FALSE)

HessEntries == {0 - 2, 0, 2}
Diagonal(n, d, zero) == [i \in 1..n |-> [j \in 1..n |-> IF i = j THEN d[i] ELSE zero]]

\* Real matrices in real Schur form: diagonal ones of every size, 2 x 2 upper
\* triangular ones, 2 x 2 blocks with a conjugate pair, and 3 x 3 ones made of
\* such a block and a real entry.
RealSquare ==
    UNION {{MatrixOf(n, n, Diagonal(n, d, 0), FALSE) : d \in [1..n -> HessEntries]} :
           n \in 1..MaxHessN}
    \cup {MatrixOf(2, 2, <<<<a, 2>>, <<0, a - 2>>>>, FALSE) : a \in {0, 2}}
    \cup {MatrixOf(2, 2, <<<<a, s>>, <<0 - s, a>>>>, FALSE) :
          a \in HessEntries, s \in {0 - 2, 2}}
    \cup {MatrixOf(3, 3, <<<<a, s, 0>>, <<0 - s, a, 0>>, <<0, 0, d>>>>, FALSE) :
          a \in {0, 2}, s \in {0 - 2, 2}, d \in {0 - 2, 2}}
    \cup {MatrixOf(3, 3, <<<<d, 0, 0>>, <<0, a, s>>, <<0, 0 - s, a>>>>, FALSE) :
          a \in {0, 2}, s \in {0 - 2, 2}, d \in {0 - 2, 2}}

ComplexEntries == {<<0, 0>>, <<1, 0>>, <<0, 1>>}
\* Complex upper triangular matrices: diagonal ones of every size and 2 x 2
\* ones with distinct diagonal entries; and one matrix on which the Schur
\* reduction does not converge.
ComplexSquare ==
    UNION {{MatrixOf(n, n, Diagonal(n, d, <<0, 0>>), FALSE) : d \in [1..n -> ComplexEntries]} :
           n \in 1..MaxHessN}
    \cup {MatrixOf(2, 2, <<<<d[1], <<2, 0>>>>, <<<<0, 0>>, d[2]>>>>, FALSE) :
          d \in {x \in ComplexEntries \X ComplexEntries : x[1] # x[2]}}
    \cup {MatrixOf(2, 2, <<<<<<1, 0>>, <<1, 0>>>>, <<<<1, 0>>, <<1, 0>>>>>>, TRUE)}

NonSquareShapes == {<<1, 2>>, <<2, 1>>, <<2, 3>>}
RealInputs ==
    RealSquare
    \cup {MatrixOf(s[1], s[2], [i \in 1..s[1] |-> [j \in 1..s[2] |-> 2]], FALSE) :
          s \in NonSquareShapes}
ComplexInputs ==
    ComplexSquare
    \cup {MatrixOf(s[1], s[2], [i \in 1..s[1] |-> [j \in 1..s[2] |-> <<1, 0>>]], FALSE) :
          s \in NonSquareShapes}

HessInputs(variant) == IF variant = "real" THEN RealInputs ELSE ComplexInputs

(***************************************************************************)
(* One call of RestartArnoldi::run.                                        *)
(***************************************************************************)
NoRun == [path |-> "none", ritz_val |-> <<>>, k |-> 0, i |-> 0, pc |-> "idle",
          steps |-> <<>>, ops |-> <<>>]

\* ritz_val[j] for the C++ index j; an index past the end reads whatever
\* lies there, which may or may not be the conjugate of v.
read_ritz(ritz_val, j, v) ==
    IF j < Len(ritz_val) THEN {ritz_val[j + 1]} ELSE {Conj(v), Zero}

ShiftStep(kind, index, s, t, mu, mu_c, next) ==
    [kind |-> kind, index |-> index, s |-> s, t |-> t, mu |-> mu, mu_c |-> mu_c,
     next |-> next]

\* The real path without the extra i++ after a double shift.
run_step_real_no_skip(ritz_val, i) ==
    LET v == ritz_val[i + 1]
    IN  IF is_complex(v)
        THEN {IF is_conj(v, nxt)
              THEN ShiftStep("double", i, 2 * Re(v), Norm(v), 0, Zero, i + 1)
              ELSE ShiftStep("single", i, 0, 0, Re(v), Zero, i + 1) :
              nxt \in read_ritz(ritz_val, i + 1, v)}
        ELSE {ShiftStep("single", i, 0, 0, Re(v), Zero, i + 1)}

\* The body of the loop of the real path at index i (lines 70-105): the step
\* taken and the index the next iteration starts from.
run_step_real(ritz_val, i) ==
    LET v == ritz_val[i + 1]
    IN  IF is_complex(v)
        THEN {IF is_conj(v, nxt)
              THEN ShiftStep("double", i, 2 * Re(v), Norm(v), 0, Zero, i + 2)
              ELSE ShiftStep("single", i, 0, 0, Re(v), Zero, i + 1) :
              nxt \in read_ritz(ritz_val, i + 1, v)}
        ELSE {ShiftStep("single", i, 0, 0, Re(v), Zero, i + 1)}

\* The body of the loop of the complex path at index i (lines 131-137).
run_step_complex(ritz_val, i) ==
    {ShiftStep("single", i, 0, 0, 0, ritz_val[i + 1], i + 1)}

RitzEntries == {<<0 - 2, 0>>, <<1, 0>>, <<1, 1>>, <<1, 0 - 1>>}

\* restart(k, selection), line 207: the restart is skipped.
restart_skipped(k, ncv) == k >= ncv

RECURSIVE run_reads(_, _)
\* The C++ indices at which run(ritz_val, k, ..) of the real path reads
\* ritz_val from index i on, over every outcome of its reads: line 70 reads
\* ritz_val[i] and, when that is not real, ritz_val[i + 1].
run_reads(ritz_val, i) ==
    IF i >= Len(ritz_val) THEN {}
    ELSE UNION {(IF is_complex(ritz_val[i + 1]) THEN {i, i + 1} ELSE {i})
                    \cup run_reads(ritz_val, st.next) :
                st \in run_step_real(ritz_val, i)}

RECURSIVE shift_indices(_, _)
\* The C++ indices of the Ritz values that run(ritz_val, k, ..) of the real
\* path uses as shifts from index i on, over every outcome of its reads: a
\* single shift uses value i, a double shift value i and its conjugate i + 1.
shift_indices(ritz_val, i) ==
    IF i >= Len(ritz_val) THEN {}
    ELSE UNION {(IF st.kind = "double" THEN {i, i + 1} ELSE {i})
                    \cup shift_indices(ritz_val, st.next) :
                st \in run_step_real(ritz_val, i)}

RECURSIVE RealsAndPairs(_, _)
\* From position from on the values are reals and adjacent conjugate pairs.
RealsAndPairs(vals, from) ==
    IF from > Len(vals) THEN TRUE
    ELSE IF ~is_complex(vals[from]) THEN RealsAndPairs(vals, from + 1)
    ELSE /\ from + 1 <= Len(vals)
         /\ is_conj(vals[from], vals[from + 1])
         /\ RealsAndPairs(vals, from + 2)

\* The arguments run() is called with: ncv Ritz values and 1 <= k < ncv; on
\* the real path the values are reals and adjacent conjugate pairs, and so
\* are the shifts k .. ncv - 1 (the rank k splits no pair).
RunInputs(path) ==
    {in \in UNION {{[ritz_val |-> vals, k |-> k] :
                       vals \in [1..ncv -> RitzEntries], k \in 1..(ncv - 1)} :
                      ncv \in 3..MaxN} :
        path = "real" => /\ RealsAndPairs(in.ritz_val, 1)
                         /\ RealsAndPairs(in.ritz_val, in.k + 1)}

(***************************************************************************)
(* GenEigsBase: the public operations.                                     *)
(***************************************************************************)
\* The record of a public call: its outcome and, for compute(), its arguments.
Call(selection, maxit, tol, sorting) ==
    [selection |-> selection, maxit |-> maxit, tol |-> tol, sorting |-> sorting]
NoCall == Call("none", 0, 0, "none")
Ret(op, status, value, call) ==
    [op |-> op, status |-> status, value |-> value, call |-> call]

\* A helper call: the helper, the position ("call" on entry, "done" on
\* return), its arguments and what it returned.
UnitCall(fn, pos, in, out) == [fn |-> fn, pc |-> pos, in |-> in, out |-> out]
NoUnit == UnitCall("none", "idle", <<>>, <<>>)

\* compute()'s arguments and locals exist only while it runs.
NoLocals ==
    /\ c_selection' = "none" /\ c_maxit' = 0 /\ c_tol' = 0
    /\ c_i' = 0 /\ c_nconv' = 0

\* Nothing constructed, nothing called.
AtRest ==
    /\ ctor = "none"
    /\ args = [n |-> 0, nev |-> 0, ncv |-> 0]
    /\ m_n = 0 /\ m_nev = 0 /\ m_ncv = 0 /\ m_nmatop = 0 /\ m_niter = 0
    /\ m_fac = NoFac
    /\ m_ritz_val = <<>> /\ m_ritz_vec = <<>> /\ m_ritz_est = <<>>
    /\ m_ritz_conv = <<>>
    /\ m_info = "NotComputed"
    /\ pc = "idle"
    /\ c_selection = "none" /\ c_maxit = 0 /\ c_tol = 0 /\ c_i = 0 /\ c_nconv = 0
    /\ ret = Ret("none", "none", 0, NoCall)
    /\ apps = 0
    /\ computes = 0
    /\ hess = NoHess
    /\ hcall = [op |-> "none", status |-> "none", input |-> NoInput, attempts |-> 0,
                succeeded |-> FALSE, computes |-> 0]
    /\ rst = NoRun

Init == AtRest /\ unit = NoUnit

\* GenEigsBase(op, Bop, nev, ncv)
Construct(n, nev, ncv) ==
    /\ ctor = "none"
    /\ args' = [n |-> n, nev |-> nev, ncv |-> ncv]
    /\ m_n' = n
    /\ m_nev' = nev
    /\ m_ncv' = IF ncv > n THEN n ELSE ncv
    /\ m_nmatop' = 0
    /\ m_niter' = 0
    /\ m_info' = "NotComputed"
    /\ ctor' = ctor_check(n, nev, ncv)
    /\ ret' = Ret("construct", ctor_check(n, nev, ncv), 0, NoCall)
    /\ UNCHANGED <<m_fac, m_ritz_val, m_ritz_vec, m_ritz_est, m_ritz_conv,
                   pc, c_selection, c_maxit, c_tol, c_i, c_nconv, apps, computes>>
    /\ UNCHANGED <<hvars, rvars, uvars>>

\* init with the flags resized and not cleared.
init_fields_flags_kept(n, nev, ncv) ==
    [val |-> [i \in 1..ncv |-> Zero],
     vec |-> [i \in 1..nev |-> [r \in 1..ncv |-> 0]],
     est |-> [i \in 1..ncv |-> 0],
     conv |-> IF Len(m_ritz_conv) = nev THEN m_ritz_conv ELSE [i \in 1..nev |-> FALSE],
     nmatop |-> 0,
     niter |-> 0]

\* The effect of init(init_resid) on the solver's own fields.
init_fields(n, nev, ncv) ==
    [val |-> [i \in 1..ncv |-> Zero],
     vec |-> [i \in 1..nev |-> [r \in 1..ncv |-> 0]],
     est |-> [i \in 1..ncv |-> 0],
     conv |-> [i \in 1..nev |-> FALSE],
     nmatop |-> 0,
     niter |-> 0]

\* init with the status set back to its initial value.
info_after_init_reset(status) == "NotComputed"

\* The status after init(init_resid): the function does not assign m_info.
info_after_init(status) == status

\* init(const Scalar* init_resid)
init(v0) ==
    /\ ctor = "ok" /\ pc = "idle"
    /\ LET z == init_fields(m_n, m_nev, m_ncv)
       IN  /\ m_ritz_val' = z.val
           /\ m_ritz_vec' = z.vec
           /\ m_ritz_est' = z.est
           /\ m_ritz_conv' = z.conv
           /\ m_niter' = z.niter
           /\ m_nmatop' = z.nmatop + 1
           /\ apps' = 1
           /\ computes' = 0
    /\ m_fac' \in arnoldi_init(m_n, v0)
    /\ m_info' = info_after_init(m_info)
    /\ ret' = Ret("init", "returned", 0, NoCall)
    /\ UNCHANGED <<ctor, args, m_n, m_nev, m_ncv,
                   pc, c_selection, c_maxit, c_tol, c_i, c_nconv>>
    /\ UNCHANGED <<hvars, rvars, uvars>>

\* SimpleRandom<Scalar>(0).random_vec(n): one fixed vector.
random_vec(n) == [r \in 1..n |-> IF r % 2 = 1 THEN 1 ELSE 0 - 1]

InitResid == \E r \in {1, m_n} : init(UnitVec(m_n, r))

\* init()
InitRandom == init(random_vec(m_n))

\* compute(selection, maxit, tol, sorting) is entered (after an init).
compute_call(selection, maxit, tol) ==
    /\ ctor = "ok" /\ pc = "idle"
    /\ Len(m_ritz_val) = m_ncv
    /\ computes' = computes + 1
    /\ pc' = "begin"
    /\ c_selection' = selection /\ c_maxit' = maxit /\ c_tol' = tol
    /\ c_i' = 0 /\ c_nconv' = 0
    /\ ret' = Ret("compute", "running", 0, NoCall)
    /\ UNCHANGED <<ctor, args, m_n, m_nev, m_ncv, m_nmatop, m_niter, m_fac,
                   m_ritz_val, m_ritz_vec, m_ritz_est, m_ritz_conv, m_info, apps>>
    /\ UNCHANGED <<hvars, rvars, uvars>>

\* compute() right after init(): one solve.
ComputeCall(selection, maxit, tol) ==
    /\ computes = 0
    /\ compute_call(selection, maxit, tol)

\* compute() called again without a new init().
ComputeAgain(selection, maxit, tol) ==
    /\ computes > 0 /\ computes < MaxComputes
    /\ compute_call(selection, maxit, tol)

\* The loop condition tested after the increment as well as before it.
loop_continues_inclusive(i, maxit) == i <= maxit

\* for (i = 0; i < maxit; i++): the condition of the restart loop.
loop_continues(i, maxit) == i < maxit

\* compute(): lines 505-506 and the entry of the loop.
ComputeBegin ==
    /\ pc = "begin"
    /\ m_fac' \in factorize_from(m_n, 1, m_ncv)
    /\ m_nmatop' = m_nmatop + factorize_ops(1, m_ncv)
    /\ apps' = apps + factorize_ops(1, m_ncv)
    /\ IF ~selection_throws(c_selection)
       THEN LET rp == retrieve_ritzpair(m_fac', c_selection, m_nev, m_ncv)
            IN  /\ m_ritz_val' = rp.val
                /\ m_ritz_est' = rp.est
                /\ m_ritz_vec' = rp.vec
                /\ pc' = IF loop_continues(0, c_maxit) THEN "loop" ELSE "sort"
                /\ UNCHANGED <<c_selection, c_maxit, c_tol, c_i, c_nconv, ret>>
       ELSE /\ UNCHANGED <<m_ritz_val, m_ritz_est, m_ritz_vec>>
            /\ NoLocals
            /\ pc' = "idle"
            /\ ret' = Ret("compute", "invalid_argument", 0,
                        Call(c_selection, c_maxit, c_tol, "none"))
    /\ UNCHANGED <<ctor, args, m_n, m_nev, m_ncv, m_niter, m_ritz_conv, m_info,
                   computes>>
    /\ UNCHANGED <<hvars, rvars, uvars>>

\* One pass of the restart loop (lines 509-517): the convergence test, and
\* unless it ends the loop, nev_adjusted and restart (lines 204-222).
LoopIter ==
    /\ pc = "loop"
    /\ LET conv == num_converged(m_ritz_val, m_ritz_est, m_fac.f_norm, c_tol, m_nev)
           nconv == Count(conv)
           k == nev_adjusted(m_ritz_val, m_ritz_est, m_nev, m_ncv, nconv)
       IN  /\ m_ritz_conv' = conv
           /\ c_nconv' = nconv
           /\ IF nconv >= m_nev
              THEN /\ pc' = "sort"
                   /\ UNCHANGED <<m_fac, m_nmatop, apps, m_ritz_val, m_ritz_est,
                                  m_ritz_vec, c_i>>
              ELSE /\ IF restart_skipped(k, m_ncv)
                      THEN UNCHANGED <<m_fac, m_nmatop, apps, m_ritz_val,
                                       m_ritz_est, m_ritz_vec>>
                      ELSE /\ m_fac' \in factorize_from(m_n, k, m_ncv)
                           /\ m_nmatop' = m_nmatop + factorize_ops(k, m_ncv)
                           /\ apps' = apps + factorize_ops(k, m_ncv)
                           /\ LET rp == retrieve_ritzpair(m_fac', c_selection,
                                                          m_nev, m_ncv)
                              IN  /\ m_ritz_val' = rp.val
                                  /\ m_ritz_est' = rp.est
                                  /\ m_ritz_vec' = rp.vec
                   /\ c_i' = c_i + 1
                   /\ pc' = IF loop_continues(c_i + 1, c_maxit) THEN "loop" ELSE "sort"
    /\ UNCHANGED <<ctor, args, m_n, m_nev, m_ncv, m_niter, m_info,
                   c_selection, c_maxit, c_tol, ret, computes>>
    /\ UNCHANGED <<hvars, rvars, uvars>>

\* compute(): lines 519-524.  The sort rule is drawn where the code first
\* reads it.
ComputeFinish(sorting) ==
    /\ pc = "sort"
    /\ pc' = "idle"
    /\ NoLocals
    /\ IF ~sort_throws(sorting)
       THEN LET s == sort_ritzpair(m_ritz_val, m_ritz_vec, m_ritz_conv,
                                   m_nev, m_ncv, sorting)
            IN  /\ m_ritz_val' = s.val
                /\ m_ritz_vec' = s.vec
                /\ m_ritz_conv' = s.conv
                /\ m_niter' = niter_after(m_niter, c_i)
                /\ m_info' = info_after(c_nconv, m_nev)
                /\ ret' = Ret("compute", "returned", Min(m_nev, c_nconv),
                            Call(c_selection, c_maxit, c_tol, sorting))
       ELSE /\ UNCHANGED <<m_ritz_val, m_ritz_vec, m_ritz_conv, m_niter, m_info>>
            /\ ret' = Ret("compute", "invalid_argument", 0,
                        Call(c_selection, c_maxit, c_tol, sorting))
    /\ UNCHANGED <<ctor, args, m_n, m_nev, m_ncv, m_nmatop, m_fac, m_ritz_est, apps,
                   computes>>
    /\ UNCHANGED <<hvars, rvars, uvars>>

Next ==
    \/ \E n \in 0..MaxN, nev \in 0..MaxN, ncv \in 0..(MaxN + 1) : Construct(n, nev, ncv)
    \/ InitResid
    \/ InitRandom
    \/ \E selection \in Rules, maxit \in 0..MaxIt, tol \in Tols :
           ComputeCall(selection, maxit, tol)
    \/ ComputeBegin
    \/ LoopIter
    \/ \E sorting \in Rules : ComputeFinish(sorting)

Spec == Init /\ [][Next]_vars

\* A compute() that has been entered runs on: its steps are the statements
\* of one sequential call, each of which returns.
ComputeRuns ==
    /\ WF_vars(ComputeBegin)
    /\ WF_vars(LoopIter)
    /\ WF_vars(\E sorting \in Rules : ComputeFinish(sorting))

SpecLive == Init /\ [][Next]_vars /\ ComputeRuns

\* The solver used for several compute() calls after one init().
NextAgain ==
    \/ Next
    \/ \E selection \in Rules, maxit \in 0..MaxIt, tol \in Tols :
           ComputeAgain(selection, maxit, tol)

SpecAgain == Init /\ [][NextAgain]_vars

(***************************************************************************)
(* UpperHessenbergEigen as an object: construction, compute() and the two  *)
(* accessors.                                                              *)
(***************************************************************************)
\* The record of a call: its outcome, the matrix handed to it, the Schur
\* reductions it started, whether some compute() of the object has completed,
\* and the number of compute() calls made on the object.
HCall(op, status, input, attempts, succeeded, ncomputes) ==
    [op |-> op, status |-> status, input |-> input, attempts |-> attempts,
     succeeded |-> succeeded, computes |-> ncomputes]

\* UpperHessenbergEigen()
HessConstruct(variant) ==
    /\ hess.variant = "none"
    /\ hess' = NewHess(variant, 0)
    /\ hcall' = HCall("construct", "returned", NoInput, 0, FALSE, 0)
    /\ UNCHANGED <<svars, rvars, uvars>>

\* UpperHessenbergEigen(mat): an exception of compute() leaves no object.
HessConstructFrom(variant, mat) ==
    /\ hess.variant = "none"
    /\ \E r \in hess_compute(NewHess(variant, mat.rows), mat) :
          /\ hess' = IF r.status = "returned" THEN r.obj ELSE NoHess
          /\ hcall' = HCall("construct_from", r.status, mat, r.attempts,
                            r.status = "returned",
                            IF r.status = "returned" THEN 1 ELSE 0)
    /\ UNCHANGED <<svars, rvars, uvars>>

\* compute(mat)
HessCompute(mat) ==
    /\ hess.variant # "none"
    /\ hcall.computes < MaxHessComputes
    /\ \E r \in hess_compute(hess, mat) :
          /\ hess' = r.obj
          /\ hcall' = HCall("compute", r.status, mat, r.attempts,
                            hcall.succeeded \/ r.status = "returned",
                            hcall.computes + 1)
    /\ UNCHANGED <<svars, rvars, uvars>>

\* eigenvalues()
HessEigenvalues ==
    /\ hess.variant # "none"
    /\ hcall' = HCall("eigenvalues", hess_eigenvalues(hess).status, NoInput, 0,
                      hcall.succeeded, hcall.computes)
    /\ UNCHANGED <<hess, svars, rvars, uvars>>

\* eigenvectors()
HessEigenvectors ==
    /\ hess.variant # "none"
    /\ hcall' = HCall("eigenvectors", hess_eigenvectors(hess).status, NoInput, 0,
                      hcall.succeeded, hcall.computes)
    /\ UNCHANGED <<hess, svars, rvars, uvars>>

NextHess ==
    \/ \E variant \in {"real", "complex"} : HessConstruct(variant)
    \/ \E variant \in {"real", "complex"} :
           \E mat \in HessInputs(variant) : HessConstructFrom(variant, mat)
    \/ \E mat \in HessInputs(hess.variant) : HessCompute(mat)
    \/ HessEigenvalues
    \/ HessEigenvectors

SpecHess == Init /\ [][NextHess]_vars

(***************************************************************************)
(* RestartArnoldi::run as a process: the call, one step per iteration of   *)
(* the loop, the return.                                                   *)
(***************************************************************************)
RunCall(path, in) ==
    /\ rst.pc \in {"idle", "done"}
    /\ rst' = [path |-> path, ritz_val |-> in.ritz_val, k |-> in.k, i |-> in.k,
               pc |-> "loop", steps |-> <<>>, ops |-> <<>>]
    /\ UNCHANGED <<svars, hvars, uvars>>

\* One iteration: the decomposition for the shift, Q <- Q * Qi, then
\* H <- Qi' * H * Qi.
RunStep ==
    /\ rst.pc = "loop"
    /\ rst.i < Len(rst.ritz_val)
    /\ \E st \in IF rst.path = "real" THEN run_step_real(rst.ritz_val, rst.i)
                 ELSE run_step_complex(rst.ritz_val, rst.i) :
          rst' = [rst EXCEPT !.i = st.next,
                             !.steps = Append(@, st),
                             !.ops = @ \o <<<<"apply_YQ", Len(rst.steps) + 1>>,
                                            <<"compress_H", Len(rst.steps) + 1>>>>]
    /\ UNCHANGED <<svars, hvars, uvars>>

RunReturn ==
    /\ rst.pc = "loop"
    /\ rst.i >= Len(rst.ritz_val)
    /\ rst' = [rst EXCEPT !.pc = "done"]
    /\ UNCHANGED <<svars, hvars, uvars>>

NextRestart ==
    \/ \E path \in {"real", "complex"} : \E in \in RunInputs(path) : RunCall(path, in)
    \/ RunStep
    \/ RunReturn

SpecRestart == Init /\ [][NextRestart]_vars

(***************************************************************************)
(* The private helpers of GenEigsBase called on their own, in states of    *)
(* the solver of any size up to MaxHelperNcv.                              *)
(***************************************************************************)
HelperValues == {<<1, 0>>, <<1, 1>>, <<1, 0 - 1>>}

\* The states nev_adjusted(nconv) is called in by compute(): 1 <= nev <=
\* ncv - 2, nconv < nev, any Ritz values, any pattern of negligible estimates
\* among the unwanted ones.
AdjustEntry ==
    \E ncv \in 3..MaxHelperNcv : \E nev \in 1..(ncv - 2) : \E nconv \in 0..(nev - 1) :
        \E vals \in [1..ncv -> HelperValues] : \E e \in [(nev + 1)..ncv -> {0, 1}] :
            unit = UnitCall("nev_adjusted", "call",
                            [nev |-> nev, ncv |-> ncv, nconv |-> nconv,
                             ritz_val |-> vals,
                             ritz_est |-> [i \in 1..ncv |-> IF i <= nev THEN 1 ELSE e[i]]],
                            0)

\* nev_adj = nev_adjusted(nconv)
AdjustCall ==
    /\ unit.fn = "nev_adjusted" /\ unit.pc = "call"
    /\ unit' = [unit EXCEPT !.pc = "done",
                            !.out = nev_adjusted(unit.in.ritz_val, unit.in.ritz_est,
                                                 unit.in.nev, unit.in.ncv,
                                                 unit.in.nconv)]
    /\ UNCHANGED <<svars, hvars, rvars>>

TestValues == {<<0, 0>>, <<1, 1>>, <<0 - 2, 0>>}

\* The states num_converged(tol) is called in: any Ritz values and estimates
\* at all ncv positions, any residual norm, any tol >= 0.
ConvergedEntry ==
    \E ncv \in 3..MaxTestNcv : \E nev \in 1..(ncv - 2) :
        \E vals \in [1..ncv -> TestValues] : \E est \in [1..ncv -> {0, 1}] :
            \E f_norm \in 0..2 : \E tol \in 0..2 :
                unit = UnitCall("num_converged", "call",
                                [nev |-> nev, ncv |-> ncv, ritz_val |-> vals,
                                 ritz_est |-> est, f_norm |-> f_norm, tol |-> tol],
                                [conv |-> <<>>, nconv |-> 0])

\* nconv = num_converged(tol): the flags stored and the count returned.
ConvergedCall ==
    /\ unit.fn = "num_converged" /\ unit.pc = "call"
    /\ LET conv == num_converged(unit.in.ritz_val, unit.in.ritz_est, unit.in.f_norm,
                                 unit.in.tol, unit.in.nev)
       IN  unit' = [unit EXCEPT !.pc = "done",
                                !.out = [conv |-> conv, nconv |-> Count(conv)]]
    /\ UNCHANGED <<svars, hvars, rvars>>

SortValues == {<<0, 0>>, <<1, 0>>, <<0, 1>>, <<2, 0>>}

\* The states sortEigenvalues(true) is called in by compute() of the complex
\* variant: m_eivalues is the Schur diagonal, of any size n >= 0, and column
\* k of m_eivec the vector computed for position k (held here by the
\* position it was computed for).
SortEntry ==
    \E n \in 0..MaxSortN : \E d \in [1..n -> SortValues] :
        unit = UnitCall("sortEigenvalues", "call",
                        [m_eivalues |-> [i \in 1..n |-> HCNum(d[i])],
                         m_eivec |-> [k \in 1..n |-> k]],
                        [eivalues |-> <<>>, eivec |-> <<>>])

\* sortEigenvalues(true)
SortCall ==
    /\ unit.fn = "sortEigenvalues" /\ unit.pc = "call"
    /\ unit' = [unit EXCEPT !.pc = "done",
                            !.out = sortEigenvalues(unit.in.m_eivalues,
                                                    unit.in.m_eivec, 1)]
    /\ UNCHANGED <<svars, hvars, rvars>>

\* The helper calls made: one per behaviour, on any of the inputs.
InitHelpers ==
    /\ AtRest
    /\ \/ AdjustEntry
       \/ ConvergedEntry
       \/ SortEntry

NextHelpers ==
    \/ AdjustCall
    \/ ConvergedCall
    \/ SortCall

SpecHelpers == InitHelpers /\ [][NextHelpers]_vars

(***************************************************************************)
(* Properties of the solver.                                               *)
(***************************************************************************)
Returned == ret.op = "compute" /\ ret.status = "returned"

\* The residual test of num_converged on one value and one estimate.
PassesTest(val, est, f_norm, tol) ==
    (est * est) * (f_norm * f_norm) < (tol * tol) * Max(eps23 * eps23, Norm(val))

\* a comes no later than b in the order of a rule.
InOrder(rule, a, b) == SortingTarget(rule, a) <= SortingTarget(rule, b)

Permutations(m) == {p \in [1..m -> 1..m] : \A a, b \in 1..m : a # b => p[a] # p[b]}

C2_ConstructorValidation ==
    ctor # "none" =>
        /\ ctor = "invalid_argument" <=>
               ~ /\ 1 <= args.nev /\ args.nev <= args.n - 2
                 /\ args.nev + 2 <= args.ncv /\ args.ncv <= args.n
        /\ ctor \in {"ok", "invalid_argument"}
        /\ ctor = "invalid_argument" => apps = 0 /\ m_nmatop = 0

C2_BoundaryConstructs ==
    /\ ctor = "ok" /\ ret.op = "construct"
    /\ args.nev = args.n - 2 /\ args.ncv = args.n

\* C3: after init() and one compute(selection, maxit, tol, sorting),
\* num_iterations() is at most maxit.
C3_IterationsWithinMaxit ==
    (Returned /\ computes = 1) => num_iterations <= ret.call.maxit

\* C4: the status is NotComputed until the first compute() returns (it changes
\* only in a step in which compute() returns); after compute() has returned,
\* it is Successful exactly when the returned count equals nev and
\* NotConverging otherwise, and the returned count is in 0..nev.
C4_StatusAndCount ==
    /\ [](Returned =>
            /\ ret.value \in 0..m_nev
            /\ info = (IF ret.value = m_nev THEN "Successful" ELSE "NotConverging"))
    /\ [](info = "NotComputed" \/ ctor = "ok")
    /\ [][info' # info => (pc = "sort" /\ ret'.op = "compute"
                            /\ ret'.status = "returned")]_vars

C4_PartialResult ==
    /\ Returned /\ m_nev >= 2
    /\ ret.value = m_nev - 1 /\ info = "NotConverging"

\* C5: on exit from compute() one permutation of the positions 1..nev is
\* applied jointly to the Ritz values, the Ritz vectors and the flags, it
\* orders the values by the sort rule whatever the selection rule was, and
\* eigenvalues() is ordered by the sort rule.
C5_JointSort ==
    /\ [][(pc = "sort" /\ ret'.status = "returned") =>
            \E p \in Permutations(m_nev) :
                \A i \in 1..m_nev :
                    /\ m_ritz_val'[i] = m_ritz_val[p[i]]
                    /\ m_ritz_vec'[i] = m_ritz_vec[p[i]]
                    /\ m_ritz_conv'[i] = m_ritz_conv[p[i]]]_vars
    /\ [](Returned =>
            /\ \A i \in 1..(m_nev - 1) :
                   InOrder(ret.call.sorting, m_ritz_val[i], m_ritz_val[i + 1])
            /\ \A j \in 1..(Len(eigenvalues) - 1) :
                   InOrder(ret.call.sorting, eigenvalues[j], eigenvalues[j + 1]))

\* The exit sort reversed the order of the selection, with mixed flags.
C5_Reordered ==
    /\ Returned /\ m_nev = 2
    /\ ret.call.selection = "SmallestMagn" /\ ret.call.sorting = "LargestMagn"
    /\ Norm(m_ritz_val[1]) > Norm(m_ritz_val[2])
    /\ m_ritz_conv[1] # m_ritz_conv[2]

\* C6: after compute() has returned c, eigenvalues() has exactly c entries,
\* the values at the flagged positions in increasing position; for every
\* count >= 0 eigenvectors(count) has min(count, c) columns, column j being
\* V times the Ritz vector of the position of the j-th entry of eigenvalues();
\* eigenvectors() is eigenvectors(nev).
C6_ResultsMatchCount ==
    Returned =>
        LET pos == Flagged(m_ritz_conv, m_nev)
        IN  /\ Len(eigenvalues) = ret.value
            /\ Len(pos) = ret.value
            /\ \A j \in 1..Len(pos) : eigenvalues[j] = m_ritz_val[pos[j]]
            /\ \A j \in 1..(Len(pos) - 1) : pos[j] < pos[j + 1]
            /\ \A count \in 0..(m_nev + 1) :
                   /\ Len(eigenvectors(count)) = Min(count, ret.value)
                   /\ \A j \in 1..Len(eigenvectors(count)) :
                          eigenvectors(count)[j]
                              = MatVec(m_fac.V, m_ritz_vec[pos[j]], m_n)

\* C7: init(residual) and init(), in any state, leave all ncv Ritz values and
\* estimates and all Ritz vectors zero and all nev flags false (eigenvalues()
\* empty, eigenvectors() without columns), the iteration counter 0 and the
\* operation counter equal to the applications made since this init began.
C7_InitResets ==
    ret.op = "init" =>
        /\ m_ritz_val = [i \in 1..m_ncv |-> Zero]
        /\ m_ritz_est = [i \in 1..m_ncv |-> 0]
        /\ m_ritz_vec = [i \in 1..m_nev |-> [r \in 1..m_ncv |-> 0]]
        /\ m_ritz_conv = [i \in 1..m_nev |-> FALSE]
        /\ eigenvalues = <<>>
        /\ eigenvectors(m_nev) = <<>>
        /\ num_iterations = 0
        /\ num_operations = apps

\* init() called on a solver that had converged.
C7_InitAfterSolve ==
    /\ ret.op = "init" /\ info = "Successful"
    /\ m_fac.k = 1

(***************************************************************************)
(* Properties of the dense decomposer.                                     *)
(***************************************************************************)
\* C8: in both variants eigenvalues() and eigenvectors() fail with a logic
\* error as long as no compute() has completed on the object; compute() on a
\* non-square matrix fails with invalid_argument and leaves the object as it
\* was; in the complex variant a Schur reduction that does not converge makes
\* compute() fail with a runtime error after one reduction and leaves
\* m_computed as it was.
C8_DecomposerErrors ==
    /\ []((hcall.op \in {"eigenvalues", "eigenvectors"} /\ ~hcall.succeeded)
            => hcall.status = "logic_error")
    /\ [][(hcall'.op = "compute" /\ hcall'.input.rows # hcall'.input.cols)
            => (hcall'.status = "invalid_argument" /\ hess' = hess)]_vars
    /\ [][(hcall'.op = "compute" /\ hess.variant = "complex" /\ hcall'.input.hard)
            => /\ hcall'.status = "runtime_error"
               /\ hcall'.attempts = 1
               /\ hess'.m_computed = hess.m_computed
               /\ hcall'.succeeded = hcall.succeeded]_vars
    /\ []((hcall.op = "construct_from" /\ hcall.status # "returned")
            => (hess = NoHess /\ hcall.attempts <= 1
                /\ (hcall.input.rows # hcall.input.cols
                       <=> hcall.status = "invalid_argument")))

\* An accessor fails on an object whose only compute() gave up in the Schur
\* reduction.
C8_QueryAfterFailedCompute ==
    /\ hess.variant = "complex" /\ hess.m_eivec # <<>> /\ ~hess.m_computed
    /\ hcall.op = "eigenvectors" /\ hcall.status = "logic_error"
    /\ hcall.computes = 1

HCEq(a, b) == NEq(a[1], b[1]) /\ NEq(a[2], b[2])

RECURSIVE HCProd(_, _)
HCProd(seq, k) == IF k = 0 THEN HCOne ELSE HCMul(HCProd(seq, k - 1), seq[k])

RECURSIVE Det(_)
\* The determinant of a complex matrix, expanded along its first row.
Det(M) ==
    IF Len(M) = 1 THEN M[1][1]
    ELSE HCSum([j \in 1..Len(M) |->
                   LET minor == [r \in 1..(Len(M) - 1) |-> [c \in 1..(Len(M) - 1) |->
                                    M[r + 1][IF c < j THEN c ELSE c + 1]]]
                       term == HCMul(M[1][j], Det(minor))
                   IN  IF j % 2 = 1 THEN term ELSE HCNeg(term)], Len(M))

\* The entries of an input matrix as complex numbers.
EntryOf(mat, i, j) ==
    IF hess.variant = "real" THEN HC(N(mat.a[i][j]), N(0)) ELSE HCNum(mat.a[i][j])

\* The eigenvalues ev are, with multiplicity, those of the matrix: the
\* polynomials det(x I - H) and prod (x - ev[i]) agree at n + 1 points.
SameSpectrum(mat, ev) ==
    /\ Len(ev) = mat.rows
    /\ \A x \in 0..mat.rows :
          HCEq(Det([i \in 1..mat.rows |-> [j \in 1..mat.rows |->
                      HCSub(IF i = j THEN HC(N(x), N(0)) ELSE HCZero, EntryOf(mat, i, j))]]),
               HCProd([i \in 1..Len(ev) |-> HCSub(HC(N(x), N(0)), ev[i])], Len(ev)))

\* v is a unit vector with H v = lambda v.
ExactPair(mat, lambda, v) ==
    /\ NLt(N(0), v.div2)
    /\ NEq(v.div2, NSum([i \in 1..Len(v.dir) |-> HCNorm(v.dir[i])], Len(v.dir)))
    /\ \A i \in 1..mat.rows :
          HCEq(HCSum([c \in 1..mat.cols |-> HCMul(EntryOf(mat, i, c), v.dir[c])], mat.cols),
               HCMul(lambda, v.dir[i]))

\* C9: for every square upper Hessenberg H of either variant the eigenvalues
\* returned after compute(H) are, with multiplicity, the eigenvalues of H, and
\* every returned pair (lambda, v) has v of unit norm and a residual
\* H v - lambda v within the tolerance (on the grid: zero).
C9_RoundTrip ==
    (hcall.op \in {"compute", "construct_from"} /\ hcall.status = "returned") =>
        /\ SameSpectrum(hcall.input, hess_eigenvalues(hess).value)
        /\ Len(hess_eigenvectors(hess).value) = hcall.input.rows
        /\ \A j \in 1..hcall.input.rows :
              ExactPair(hcall.input, hess_eigenvalues(hess).value[j],
                        hess_eigenvectors(hess).value[j])

\* The round trip on the matrices that have a non-zero entry.
C9_RoundTripNonZero ==
    (hcall.op \in {"compute", "construct_from"} /\ hcall.status = "returned"
        /\ \E i, j \in 1..hcall.input.rows : EntryOf(hcall.input, i, j) # HCZero)
    => C9_RoundTrip

\* No value off the grid is ever stored: the arithmetic of the model is exact
\* on the inputs it is given.
OnGrid ==
    /\ \A i \in DOMAIN hess.m_eivalues :
          hess.m_eivalues[i][1] # OffGrid /\ hess.m_eivalues[i][2] # OffGrid
    /\ hess.variant = "real" =>
          \A i \in DOMAIN hess.m_eivec : \A j \in DOMAIN hess.m_eivec[i] :
              hess.m_eivec[i][j] # OffGrid
    /\ hess.variant = "complex" =>
          \A k \in DOMAIN hess.m_eivec : \A i \in DOMAIN hess.m_eivec[k].dir :
              hess.m_eivec[k].dir[i][1] # OffGrid /\ hess.m_eivec[k].dir[i][2] # OffGrid

(***************************************************************************)
(* Properties of the restart.                                              *)
(***************************************************************************)
StepWidth(st) == IF st.kind = "double" THEN 2 ELSE 1

AdjustedRank(in) ==
    LET value(j) == in.ritz_val[j + 1]
        estimate(j) == in.ritz_est[j + 1]
        r1 == in.nev + Cardinality({i \in in.nev..(in.ncv - 1) :
                                       below_near_0(estimate(i))})
        r2 == r1 + Min(in.nconv, (in.ncv - r1) \div 2)
        r3 == IF r2 = 1 /\ in.ncv >= 6 THEN in.ncv \div 2
              ELSE IF r2 = 1 /\ in.ncv > 3 THEN 2 ELSE r2
        r4 == IF r3 > in.ncv - 2 THEN in.ncv - 2 ELSE r3
    IN  IF Im(value(r4 - 1)) # 0 /\ value(r4) = Conj(value(r4 - 1))
        THEN r4 + 1 ELSE r4

\* C11: nev_adjusted(nconv) returns, for every 1 <= nev <= ncv - 2, every
\* 0 <= nconv < nev and every Ritz configuration, the value of the procedure:
\* nev plus the number of negligible unwanted estimates; plus min(nconv,
\* floor((ncv - r) / 2)) on the incremented r; 1 replaced by floor(ncv / 2)
\* when ncv >= 6 and by 2 when ncv > 3; clamped to ncv - 2; plus one when
\* value[r - 1] is non-real and value[r] its exact conjugate.
C11_AdjustedRankProcedure ==
    (unit.fn = "nev_adjusted" /\ unit.pc = "done") => unit.out = AdjustedRank(unit.in)

\* A call in which the rank 1 is replaced by floor(ncv / 2) and then extended
\* over a conjugate pair.
C11_HalvedAndExtended ==
    /\ unit.fn = "nev_adjusted" /\ unit.pc = "done"
    /\ unit.in.nev = 1 /\ unit.in.nconv = 0 /\ unit.in.ncv = 6
    /\ unit.out = 4

\* C12: num_converged(tol) sets the flags of the positions 0 .. nev - 1, and
\* only those, flag i being true exactly when |estimate_i| * ||f|| <
\* tol * max(eps^(2/3), |value_i|), strictly (equality and tol = 0 are not
\* converged); it returns the number of true flags; values and estimates at
\* the positions >= nev have no influence.
C12_StrictTestOnWanted ==
    (unit.fn = "num_converged" /\ unit.pc = "done") =>
        /\ DOMAIN unit.out.conv = 1..unit.in.nev
        /\ \A i \in 1..unit.in.nev :
              unit.out.conv[i] <=>
                  (unit.in.ritz_est[i] * unit.in.ritz_est[i])
                        * (unit.in.f_norm * unit.in.f_norm)
                    < (unit.in.tol * unit.in.tol)
                        * (IF Norm(unit.in.ritz_val[i]) > eps23 * eps23
                           THEN Norm(unit.in.ritz_val[i]) ELSE eps23 * eps23)
        /\ unit.out.nconv = Cardinality({i \in 1..unit.in.nev : unit.out.conv[i]})
        /\ unit.in.tol = 0 => unit.out.nconv = 0

\* A test with tol > 0 in which one wanted value passes, the other meets its
\* threshold exactly, and an unwanted position would pass.
C12_EqualityNotConverged ==
    /\ unit.fn = "num_converged" /\ unit.pc = "done"
    /\ unit.in.nev = 2 /\ unit.in.tol = 1 /\ unit.in.f_norm = 2
    /\ unit.in.ritz_val[1] = <<0 - 2, 0>> /\ unit.in.ritz_est[1] = 1
    /\ unit.in.ritz_val[2] = <<0 - 2, 0>> /\ unit.in.ritz_est[2] = 0
    /\ unit.in.ritz_est[3] = 0
    /\ unit.out.conv = <<FALSE, TRUE>> /\ unit.out.nconv = 1

\* C13: after retrieve_ritzpair(selection) with a supported rule (the state
\* inside compute() from the first retrieval to the exit sort), the ncv
\* stored Ritz values are a permutation of the decomposer's eigenvalues in
\* the order of the selection rule, estimate i is the last-row entry of the
\* eigenvector of the eigenvalue stored at i, and for i < nev vector i is
\* that eigenvector: one position, one eigenpair.
C13_RetrievedPairs ==
    pc \in {"loop", "sort"} =>
        /\ Len(m_ritz_val) = m_ncv /\ Len(m_ritz_est) = m_ncv /\ Len(m_ritz_vec) = m_nev
        /\ \E p \in Permutations(m_ncv) :
              /\ \A i \in 1..m_ncv : /\ m_ritz_val[i] = m_fac.evals[p[i]]
                                     /\ m_ritz_est[i] = m_fac.evecs[p[i]][m_ncv]
              /\ \A i \in 1..m_nev : m_ritz_vec[i] = m_fac.evecs[p[i]]
        /\ \A i \in 1..(m_ncv - 1) : InOrder(c_selection, m_ritz_val[i], m_ritz_val[i + 1])

\* A retrieval after a restart that moved the decomposer's first eigenpair
\* away from the first position, with estimates that tell the pairs apart.
C13_RetrievedReordered ==
    /\ pc = "sort" /\ c_i = 1
    /\ m_ritz_val[1] # m_fac.evals[1]
    /\ m_ritz_est[1] # m_fac.evecs[1][m_ncv]

(***************************************************************************)
(* Properties of the dense decomposer, continued.                          *)
(***************************************************************************)
\* The quasi-triangular form of the last input of the real variant: the
\* input is in real Schur form already, so it is the input over its scale.
SchurFormOfInput == scaled_input(hcall.input, max_coeff(hcall.input))

RECURSIVE BlocksFrom(_, _, _, _)
\* From position i on, the diagonal blocks of T tile the positions: a 1 x 1
\* block (last row, or a subdiagonal entry that is exactly zero) carries an
\* eigenvalue with imaginary part exactly zero, a 2 x 2 block a pair of exact
\* conjugates, the one with the non-negative imaginary part first.
BlocksFrom(T, ev, n, i) ==
    IF i > n THEN TRUE
    ELSE IF i = n \/ NEq(T[i + 1][i], N(0))
    THEN NEq(ev[i][2], N(0)) /\ BlocksFrom(T, ev, n, i + 1)
    ELSE /\ NEq(ev[i][1], ev[i + 1][1])
         /\ NEq(ev[i + 1][2], NNeg(ev[i][2]))
         /\ NEq(ev[i][2], N(0)) \/ NLt(N(0), ev[i][2])
         /\ BlocksFrom(T, ev, n, i + 2)

RealComputeReturned ==
    /\ hess.variant = "real"
    /\ hcall.op \in {"compute", "construct_from"}
    /\ hcall.status = "returned"

\* C14: a compute() of the real variant that returns yields exactly n
\* eigenvalues; the diagonal blocks of the quasi-triangular form tile the
\* positions 0 .. n - 1; a 1 x 1 block gives an entry with imaginary part
\* exactly zero and a 2 x 2 block an adjacent pair of exact conjugates with
\* the non-negative imaginary part first, also after the rescaling.
C14_RealBlocks ==
    RealComputeReturned =>
        /\ Len(hess.m_eivalues) = hcall.input.rows
        /\ BlocksFrom(SchurFormOfInput, hess.m_eivalues, hcall.input.rows, 1)

\* The same for every input that has a non-zero entry.
C14_RealBlocksNonZero ==
    (RealComputeReturned
        /\ \E i, j \in 1..hcall.input.rows : hcall.input.a[i][j] # 0)
    => C14_RealBlocks

\* A compute() on a non-zero input with a 2 x 2 block followed by a 1 x 1
\* block.
C14_PairThenReal ==
    /\ RealComputeReturned
    /\ hcall.input.rows = 3
    /\ hcall.input.a[2][1] # 0
    /\ NLt(N(0), hess.m_eivalues[1][2])
    /\ hess.m_eivalues[2] = HCConj(hess.m_eivalues[1])
    /\ NEq(hess.m_eivalues[3][2], N(0))

SortReturned == unit.fn = "sortEigenvalues" /\ unit.pc = "done"

\* C15: after sortEigenvalues of the complex variant, for every size n >= 0,
\* the eigenvalues are a permutation of the Schur diagonal in non-decreasing
\* order of magnitude and the eigenvector columns are permuted by the same
\* permutation: column i is the vector computed for the eigenvalue at i.
C15_SortedByMagnitude ==
    SortReturned =>
        LET n == Len(unit.in.m_eivalues)
        IN  /\ Len(unit.out.eivalues) = n /\ Len(unit.out.eivec) = n
            /\ \E p \in Permutations(n) : \A i \in 1..n :
                  /\ unit.out.eivalues[i] = unit.in.m_eivalues[p[i]]
                  /\ unit.out.eivec[i] = unit.in.m_eivec[p[i]]
            /\ \A i \in 1..(n - 1) :
                  ~NLt(HCNorm(unit.out.eivalues[i + 1]), HCNorm(unit.out.eivalues[i]))

\* A sort of the largest size that moves every column; and the sort of the
\* empty decomposition is reached as well (C15_SortedEmpty).
C15_AllColumnsMoved ==
    /\ SortReturned
    /\ Len(unit.in.m_eivalues) = MaxSortN
    /\ \A i \in 1..MaxSortN : unit.out.eivec[i] # unit.in.m_eivec[i]

C15_SortedEmpty == SortReturned /\ unit.in.m_eivalues = <<>> /\ unit.out.eivalues = <<>>

\* C16: the magnitude sort of the complex variant is stable: two eigenvalues
\* of equal magnitude come out in the relative order they have on the Schur
\* diagonal (columns are held by their position on the diagonal).
C16_StableSort ==
    SortReturned =>
        \A a, b \in 1..Len(unit.out.eivalues) :
            (a < b /\ NEq(HCNorm(unit.out.eivalues[a]), HCNorm(unit.out.eivalues[b])))
                => unit.out.eivec[a] < unit.out.eivec[b]

(***************************************************************************)
(* Properties of the solver, continued.                                    *)
(***************************************************************************)
\* A step of the restart loop that restarts: the factorization is expanded
\* again, which applies the operator.
Restarts == pc = "loop" /\ apps' # apps

\* C17: every compute() that is entered leaves (it returns or throws), for
\* every maxit >= 0.  A convergence test is made only while i < maxit, and
\* every pass that does not leave the loop increments i, so there are at most
\* maxit tests and restarts; a restart happens only in the pass of a test
\* that found nconv < nev; after a test that found nconv >= nev, and after
\* the loop in general, nothing but the exit sort follows, once.
C17_ComputeTerminates ==
    /\ (pc # "idle") ~> (pc = "idle")
    /\ [](pc = "loop" => (c_i < c_maxit /\ c_nconv < m_nev))
    /\ [][pc = "loop" => \/ pc' = "loop" /\ c_i' = c_i + 1
                         \/ pc' = "sort" /\ c_i' \in {c_i, c_i + 1}]_vars
    /\ [][Restarts => (c_nconv' < m_nev /\ c_i' = c_i + 1)]_vars
    /\ [][(pc = "loop" /\ c_nconv' >= m_nev)
              => (pc' = "sort" /\ c_i' = c_i /\ m_fac' = m_fac /\ apps' = apps)]_vars
    /\ [][pc = "sort" => (pc' = "idle" /\ m_fac' = m_fac /\ apps' = apps)]_vars
    /\ [][(ret' # ret /\ ret'.op = "compute" /\ ret'.status = "returned")
              => pc = "sort"]_vars

\* The loop left by i = maxit after maxit > 0 restarts, none converged.
C17_LoopExhausted ==
    /\ pc = "sort" /\ c_maxit = MaxIt /\ c_i = c_maxit /\ c_nconv < m_nev
    /\ apps > m_ncv

AdjustReturned == unit.fn = "nev_adjusted" /\ unit.pc = "done"

\* C18: in every restart of compute() the adjusted rank satisfies
\* nev <= nev_adj <= ncv - 1: the restart is not skipped by its guard
\* k >= ncv, at least one shift is applied, and every shift is a Ritz value
\* of an index >= nev, so no wanted Ritz value is used as a shift.
C18_AdjustedRankInRange ==
    AdjustReturned =>
        /\ unit.in.nev <= unit.out /\ unit.out <= unit.in.ncv - 1
        /\ ~restart_skipped(unit.out, unit.in.ncv)
        /\ shift_indices(unit.in.ritz_val, unit.out) # {}
        /\ \A j \in shift_indices(unit.in.ritz_val, unit.out) : j >= unit.in.nev

\* The same on the states of the solver at the top of the restart loop.
C18_InSolver ==
    pc = "loop" =>
        \A nconv \in 0..(m_nev - 1) :
            LET k == nev_adjusted(m_ritz_val, m_ritz_est, m_nev, m_ncv, nconv)
            IN  m_nev <= k /\ k <= m_ncv - 1

\* A call that returns the largest rank, ncv - 1, by the extension over a
\* conjugate pair at the clamp, which leaves one shift.
C18_OneShiftLeft ==
    /\ AdjustReturned
    /\ unit.in.ncv = MaxHelperNcv /\ unit.in.nev = 1
    /\ unit.out = unit.in.ncv - 1
    /\ shift_indices(unit.in.ritz_val, unit.out) = {unit.in.ncv - 1}

RECURSIVE FromRealDecomposer(_, _)
\* From position from on the values are as the real decomposer and the
\* selection sort leave them: reals and adjacent exact conjugate pairs, the
\* value with the positive imaginary part first.
FromRealDecomposer(vals, from) ==
    IF from > Len(vals) THEN TRUE
    ELSE IF ~is_complex(vals[from]) THEN FromRealDecomposer(vals, from + 1)
    ELSE /\ from + 1 <= Len(vals)
         /\ Im(vals[from]) > 0
         /\ vals[from + 1] = Conj(vals[from])
         /\ FromRealDecomposer(vals, from + 2)

\* The reads of nev_adjusted and of the restart that follows it stay inside
\* the arrays: nev_adjusted reads the estimates nev .. ncv - 1 and the values
\* nev_new - 1 and nev_new with 1 <= nev_new <= ncv - 2, and run() from the
\* adjusted rank reads values of indices <= ncv - 1 only.
ReadsInRange ==
    LET in == unit.in
        nev_new == nev_clamped(in.ritz_est, in.nev, in.ncv, in.nconv)
    IN  /\ 1 <= nev_new /\ nev_new <= in.ncv - 2
        /\ \A j \in run_reads(in.ritz_val, unit.out) : 0 <= j /\ j <= in.ncv - 1

\* C19: every read of the Ritz values and estimates during compute() uses
\* an index in 0 .. ncv - 1, given Ritz values as the real decomposer and the
\* selection sort leave them (reals and adjacent exact conjugate pairs) and a
\* restart rank produced by nev_adjusted.
C19_ReadsInRange ==
    (AdjustReturned /\ FromRealDecomposer(unit.in.ritz_val, 1)) => ReadsInRange

\* The same when the adjusted rank splits no pair.
C19_ReadsInRangeUnlessSplit ==
    (AdjustReturned /\ FromRealDecomposer(unit.in.ritz_val, 1)
        /\ RealsAndPairs(unit.in.ritz_val, unit.out + 1)) => ReadsInRange

\* The adjusted rank splits a pair exactly when it was extended between two
\* equal pairs: the values nev_new - 2 .. nev_new + 1 are a, conj(a), a, conj(a).
C19_SplitOnlyBetweenEqualPairs ==
    (AdjustReturned /\ FromRealDecomposer(unit.in.ritz_val, 1)
        /\ ~RealsAndPairs(unit.in.ritz_val, unit.out + 1))
    => /\ unit.out >= 3
       /\ is_complex(unit.in.ritz_val[unit.out])
       /\ unit.in.ritz_val[unit.out - 2] = unit.in.ritz_val[unit.out]
       /\ unit.in.ritz_val[unit.out - 1] = unit.in.ritz_val[unit.out + 1]

\* C20: init(residual) and init() never change the status: info() after an
\* init equals info() before it, so a solver initialized again after a solve
\* keeps that solve's Successful / NotConverging status, with empty results,
\* and the status changes only when a compute() returns.
C20_InitKeepsStatus ==
    /\ [][ret'.op = "init" => info' = info]_vars
    /\ [][(ret.op = "init" /\ info' # info)
              => (ret'.op = "compute" /\ ret'.status = "returned")]_vars
    /\ [](ret.op = "init" => (eigenvalues = <<>> /\ eigenvectors(m_nev) = <<>>))

\* init() after a solve that did not converge: the status still says so.
C20_InitAfterFailedSolve ==
    /\ ret.op = "init" /\ info = "NotConverging"
    /\ eigenvalues = <<>> /\ num_iterations = 0

\* The step on which a running compute() throws std::invalid_argument.
ComputeThrows ==
    /\ ret.op = "compute" /\ ret.status = "running"
    /\ ret'.op = "compute" /\ ret'.status = "invalid_argument"

\* C21: compute() with a selection rule outside the six supported rules
\* throws std::invalid_argument in the first retrieve_ritzpair, before any
\* convergence test or restart; with a supported selection rule and a sort
\* rule outside the six it throws only in sort_ritzpair, after the restart
\* loop has ended.  Until the throw, and on it, the status and the iteration
\* counter stay as they were when compute() was called, and the throwing step
\* leaves the Ritz values, vectors and flags in the order they had.
C21_UnsupportedRules ==
    /\ [][(pc = "begin" /\ c_selection \notin SupportedRules)
              => (ComputeThrows /\ pc' = "idle")]_vars
    /\ [][(ComputeThrows /\ ret'.call.selection \notin SupportedRules)
              => /\ pc = "begin" /\ c_i = 0 /\ c_nconv = 0
                 /\ m_ritz_est' = m_ritz_est]_vars
    /\ [][(ComputeThrows /\ ret'.call.selection \in SupportedRules)
              => /\ pc = "sort"
                 /\ ret'.call.sorting \notin SupportedRules
                 /\ (c_nconv >= m_nev \/ ~(c_i < c_maxit))]_vars
    /\ [][(pc = "begin" /\ c_selection \in SupportedRules) => ~ComputeThrows]_vars
    /\ [][pc = "loop" => ~ComputeThrows]_vars
    /\ [][ComputeThrows
              => /\ m_ritz_val' = m_ritz_val
                 /\ m_ritz_vec' = m_ritz_vec
                 /\ m_ritz_conv' = m_ritz_conv]_vars
    /\ [][((pc # "idle" \/ pc' # "idle") /\ ~(ret'.status = "returned"))
              => (info' = info /\ num_iterations' = num_iterations)]_vars

\* compute(LargestMagn, ..., BothEnds) has thrown after a restart loop that
\* ran once and found nothing converged.
C21_SortRuleThrown ==
    /\ ret.op = "compute" /\ ret.status = "invalid_argument"
    /\ ret.call.selection = "LargestMagn" /\ ret.call.sorting = "BothEnds"
    /\ ret.call.maxit = 1
    /\ \E i \in 1..m_nev : ~m_ritz_conv[i]

\* compute(BothEnds, ...) has thrown in the first retrieve_ritzpair.
C21_SelectionRuleThrown ==
    /\ ret.op = "compute" /\ ret.status = "invalid_argument"
    /\ ret.call.selection = "BothEnds"
    /\ m_fac.k = m_ncv

=============================================================================
